---------------------------- MODULE Spec2Model ----------------------------
(***************************************************************************)
(* Word of the Day (src/src/App.jsx, and its first revision                *)
(* src/unnamed/part_000): the date -> word hash, the history and favorites *)
(* kept in React state and mirrored in localStorage, date navigation, the  *)
(* streak statistics and the history filter.                               *)
(*                                                                         *)
(* Strings are sequences of UTF-16 code units.  A JavaScript number that   *)
(* may leave the 31-bit range is the record [hi, lo] standing for          *)
(* hi * 65536 + lo with lo in 0..65535 (hi is negative for a negative      *)
(* number).                                                                *)
(***************************************************************************)
EXTENDS Integers, Sequences, FiniteSets, TLC

\* ------------------------------------------------------------------ bounds

\* Longest input string of the hash specification.
MaxStrLen == 3
\* Days on either side of the anchor day that the session may view or run in.
NavSpan == 2
\* Sessions (page loads) of one run of the session specification.
MaxSessions == 2
\* Longest history handed to the statistics and filter specifications.
MaxHist == 3
\* Most favorites a session holds at once.
MaxFavs == 2
\* Longest search text of the filter specification.
MaxQueryLen == 2

\* --------------------------------------------------------------- integers

Half == 256 * 256

\* Bitwise exclusive or of two 16-bit naturals.
Xor16(a, b) ==
    LET f[p \in (0..65535) \X (0..65535)] ==
            IF p[1] = 0 THEN p[2]
            ELSE IF p[2] = 0 THEN p[1]
            ELSE (((p[1] % 2) + (p[2] % 2)) % 2)
                     + 2 * f[<<p[1] \div 2, p[2] \div 2>>]
    IN f[<<a, b>>]

\* ToInt32: the number's low 32 bits read as a signed integer.
ToInt32(n) == [hi |-> ((n.hi + 32768) % Half) - 32768, lo |-> n.lo]

\* ToUint32 (x >>> 0): the number's low 32 bits read as an unsigned integer.
ToUint32(n) == [hi |-> n.hi % Half, lo |-> n.lo]

\* Low and high 16 bits of the product of two 16-bit naturals.
MulLo16(x, y) == (x * (y % 256) + 256 * ((x * (y \div 256)) % 256)) % Half
MulHi16(x, y) ==
    ((x * (y % 256) + 256 * ((x * (y \div 256)) % 256)) \div Half)
        + ((x * (y \div 256)) \div 256)

\* h ^= c for a code unit c: both operands through ToInt32, result an int32.
XorAssign(hv, c) ==
    LET a == ToInt32(hv) IN [hi |-> a.hi, lo |-> Xor16(a.lo, c)]

\* Math.imul(a, b): the low 32 bits of the product, as a signed integer.
Imul(a, b) ==
    LET ah == a.hi % Half
        bh == b.hi % Half
    IN ToInt32([hi |-> (MulHi16(a.lo, b.lo) + MulLo16(ah, b.lo)
                                            + MulLo16(a.lo, bh)) % Half,
                lo |-> MulLo16(a.lo, b.lo)])

\* 2166136261 = 33052 * 65536 + 40389 and 16777619 = 256 * 65536 + 403.
OffsetBasisHi == 33052
OffsetBasisLo == 40389
FnvPrimeHi == 256
FnvPrimeLo == 403

OffsetBasis == [hi |-> OffsetBasisHi, lo |-> OffsetBasisLo]
FnvPrime == [hi |-> FnvPrimeHi, lo |-> FnvPrimeLo]

\* One turn of hashString's loop body.
HashStep(hv, c) == Imul(XorAssign(hv, c), FnvPrime)

\* The loop over all of the string s; f[k] is h after k turns.
HashLoop(h0, s) ==
    LET Numbers == [hi : (0 - 32768)..65535, lo : 0..65535]
        turn[p \in Numbers \X (0..65535)] == HashStep(p[1], p[2])
        f[k \in 0..Len(s)] ==
            IF k = 0 THEN h0 ELSE turn[<<f[k - 1], s[k]>>]
    IN f[Len(s)]

\* The accumulator returned without the unsigned shift.
HashReturnSigned(hv) == ToInt32(hv)

\* hashString's return statement.
HashReturn(hv) == ToUint32(hv)

hashString(s) == HashReturn(HashLoop(OffsetBasis, s))

\* ------------------------------------------------------------ the catalog

\* Code units: "a" 97, "b" 98, "z" 122, "A" 65, "Z" 90, "0" 48, "-" 45.
\* WORDS: <<"Zeal", "a zest">>, <<"Ebb", "to go">>, <<"Bold", "able">>.
WORDS ==
    << [word |-> <<90, 101, 97, 108>>, meaning |-> <<97, 32, 122, 101, 115, 116>>],
       [word |-> <<69, 98, 98>>, meaning |-> <<116, 111, 32, 103, 111>>],
       [word |-> <<66, 111, 108, 100>>, meaning |-> <<97, 98, 108, 101>>] >>


\* JavaScript's n % len for len > 0: the sign follows the dividend.
JsRem(n, len) ==
    LET m == ((n.hi % len) * (Half % len) + n.lo) % len
    IN IF n.hi >= 0 \/ m = 0 THEN m ELSE m - len

WordIndex(dateStr) == JsRem(hashString(dateStr), Len(WORDS))

\* Whether WORDS[idx] is an entry (otherwise the read gives undefined).
InCatalog(n) == n >= 0 /\ n < Len(WORDS)

\* WORDS[idx]; reading .word of undefined throws, which the callers model.
pickWordForDate(dateStr) == WORDS[WordIndex(dateStr) + 1]

\* ---------------------------------------------------------------- strings

Hyphen == 45
Zero == 48

\* String(n) for a natural n.
NumStr(n) ==
    LET f[m \in 0..n] ==
            IF m < 10 THEN <<Zero + m>> ELSE f[m \div 10] \o <<Zero + (m % 10)>>
    IN f[n]

\* s.padStart(2, "0")
PadStart2(s) == IF Len(s) < 2 THEN <<Zero>> \o s ELSE s

\* Number(s) for a string of decimal digits.
Number(s) ==
    LET f[k \in 0..Len(s)] ==
            IF k = 0 THEN 0 ELSE 10 * f[k - 1] + (s[k] - Zero)
    IN f[Len(s)]

\* s.split(sep) for a one-unit separator.
Split(s, sep) ==
    LET seps == {k \in 1..Len(s) : s[k] = sep}
        n == Cardinality(seps)
        \* the place of the j-th separator; 0 and Len(s) + 1 close the ends
        at(j) == IF j = 0 THEN 0
                 ELSE IF j = n + 1 THEN Len(s) + 1
                 ELSE CHOOSE k \in seps :
                          Cardinality({l \in seps : l < k}) = j - 1
    IN [j \in 1..(n + 1) |-> SubSeq(s, at(j - 1) + 1, at(j) - 1)]

\* a < b on strings: by code unit at the first difference, a proper prefix
\* first.
StrLess(a, b) ==
    \E k \in 1..Len(b) :
        /\ \A j \in 1..(k - 1) : j <= Len(a) /\ a[j] = b[j]
        /\ k - 1 <= Len(a)
        /\ (k > Len(a) \/ a[k] < b[k])

\* s.toLowerCase() on the ASCII letters.
ToLowerCase(s) ==
    [k \in 1..Len(s) |-> IF s[k] >= 65 /\ s[k] <= 90 THEN s[k] + 32 ELSE s[k]]

\* s.includes(q)
Includes(s, q) ==
    \E k \in 0..(Len(s) - Len(q)) : SubSeq(s, k + 1, k + Len(q)) = q

\* ------------------------------------------------------------------ dates

\* A Date, by its local calendar fields: getFullYear, getMonth (0..11), getDate.
IsLeap(y) == (y % 4 = 0 /\ y % 100 # 0) \/ y % 400 = 0

DaysInMonth(y, m) ==
    IF m = 1 THEN (IF IsLeap(y) THEN 29 ELSE 28)
    ELSE IF m \in {3, 5, 8, 10} THEN 30 ELSE 31

\* new Date(y, m, d): a day of month outside the month rolls over into the
\* month before or after (the program moves a date one day at a time, so one
\* month of rolling is all it needs).
NewDate(y, m, d) ==
    IF d < 1 THEN
        (IF m = 0 THEN [y |-> y - 1, m |-> 11, d |-> d + 31]
         ELSE [y |-> y, m |-> m - 1, d |-> d + DaysInMonth(y, m - 1)])
    ELSE IF d > DaysInMonth(y, m) THEN
        (IF m = 11 THEN [y |-> y + 1, m |-> 0, d |-> d - 31]
         ELSE [y |-> y, m |-> m + 1, d |-> d - DaysInMonth(y, m)])
    ELSE [y |-> y, m |-> m, d |-> d]

\* date.setDate(n)
SetDate(date, n) == NewDate(date.y, date.m, n)

dateKey(date) ==
    NumStr(date.y) \o <<Hyphen>> \o PadStart2(NumStr(date.m + 1))
        \o <<Hyphen>> \o PadStart2(NumStr(date.d))

\* todayKey() when the clock shows `date`.
todayKey(date) == dateKey(date)

dateFromKey(key) ==
    LET parts == Split(key, Hyphen)
    IN NewDate(Number(parts[1]), Number(parts[2]) - 1, Number(parts[3]))

\* ---------------------------------------------------------------- storage

STORAGE_KEY == "wotd_history_v2"
FAVORITES_KEY == "wotd_favorites_v1"

\* What localStorage holds under a key, by what getItem and JSON.parse make of
\* it: no item; the empty string; text JSON.parse rejects; the text of an
\* array; the text of a value that is no array and not iterable, such as {}.
Absent == [kind |-> "absent", val |-> <<>>]
EmptyText == [kind |-> "empty", val |-> <<>>]
Garbage == [kind |-> "garbage", val |-> <<>>]
ObjectText == [kind |-> "object", val |-> <<>>]

\* JSON.stringify(array)
Stringify(arr) == [kind |-> "array", val |-> arr]

\* if (raw): getItem gave a non-empty string.
Truthy(raw) == raw.kind \notin {"absent", "empty"}

\* JSON.parse(raw) throws.
ParseThrows(raw) == raw.kind = "garbage"

\* JSON.parse(raw) is an array.
ParsesToArray(raw) == raw.kind = "array"

\* new Set(array), as the sequence of its members in insertion order.
NewSet(arr) ==
    LET f[k \in 0..Len(arr)] ==
            IF k = 0 THEN <<>>
            ELSE IF \E j \in 1..(k - 1) : arr[j] = arr[k] THEN f[k - 1]
            ELSE Append(f[k - 1], arr[k])
    IN f[Len(arr)]

Members(set) == {set[k] : k \in 1..Len(set)}

\* --------------------------------------------------------------- the day axis

\* The clock of the first page load: 2023-12-31 (getMonth() is 11).
Anchor == NewDate(2023, 11, 31)
\* The day k days from the anchor, one setDate at a time.
DayAt(k) ==
    LET f[j \in 0..(NavSpan + 2)] ==
            IF j = 0 THEN Anchor
            ELSE SetDate(f[j - 1], f[j - 1].d + (IF k < 0 THEN 0 - 1 ELSE 1))
    IN f[IF k < 0 THEN 0 - k ELSE k]
Days == {DayAt(k) : k \in (0 - NavSpan)..NavSpan}
DayKeys == {dateKey(d) : d \in Days}

\* pickWordForDate's index and navigateDate's result for the days of the
\* axis, computed once.
WordIndexOf == [k \in DayKeys |-> WordIndex(k)]

\* The record the add-today step writes for a date showing its own word.
Rec(date) ==
    [date |-> date, word |-> WORDS[WordIndexOf[date] + 1].word,
     meaning |-> WORDS[WordIndexOf[date] + 1].meaning]

\* ------------------------------------------------------------------ state

VARIABLES
    now,                \* the browser clock's local date
    phase,              \* "closed" | "open": whether the page is loaded
    crashed,            \* an exception left an effect or a render
    sessions,           \* page loads so far
    todayDateStr,       \* useMemo(() => todayKey(), [])
    viewingDate,        \* useState(todayDateStr)
    currentWord,        \* the index in WORDS of useMemo(pickWordForDate(viewingDate))
    kbViewingDate,      \* the viewingDate closed over by the registered keydown handler
    history,            \* useState([])
    favorites,          \* useState(new Set()), in insertion order
    searchQuery,        \* useState("")
    showFavoritesOnly,  \* useState(false)
    hblob,              \* localStorage[STORAGE_KEY]
    fblob,              \* localStorage[FAVORITES_KEY]
    last,               \* the last operation: what its add-today step did, and
                        \* for a page load what the load effect set
    sorted,             \* stats: [...history].sort(...)
    pos,                \* stats: the for-of loop's position in sorted (0: not begun)
    checkDate,          \* stats: the expected date
    streak,             \* stats: the count
    stats,              \* stats: the returned object, once returned
    str,                \* hashString: the argument
    i,                  \* hashString: the loop index
    h,                  \* hashString: the accumulator
    ret,                \* hashString: the returned number, once returned
    idx,                \* pickWordForDate: the index, once computed
    prevCall            \* the previous hashString call's argument and result

sessionVars ==
    <<now, phase, crashed, sessions, todayDateStr, viewingDate, currentWord,
      kbViewingDate, hblob, fblob, last>>
viewVars == <<history, favorites, searchQuery, showFavoritesOnly>>
statsVars == <<sorted, pos, checkDate, streak, stats>>
hashVars == <<str, i, h, ret, idx, prevCall>>
vars == <<sessionVars, viewVars, statsVars, hashVars>>

None ==
    [op |-> "none", add |-> "none", hset |-> FALSE, prev |-> <<>>,
     loaded |-> <<>>]

\* The parts of the state a specification does not use.
SessionIdle ==
    /\ now = Anchor /\ phase = "closed" /\ crashed = FALSE /\ sessions = 0
    /\ todayDateStr = <<>> /\ viewingDate = <<>> /\ currentWord = 0
    /\ kbViewingDate = <<>> /\ hblob = Absent /\ fblob = Absent
    /\ last = None
ViewIdle ==
    /\ history = <<>> /\ favorites = <<>>
    /\ searchQuery = <<>> /\ showFavoritesOnly = FALSE
StatsIdle ==
    /\ sorted = <<>> /\ pos = 0 /\ checkDate = Anchor /\ streak = 0
    /\ stats = [returned |-> FALSE, totalWords |-> 0, favoriteCount |-> 0, streak |-> 0]
HashIdle ==
    /\ str = <<>> /\ i = 0 /\ h = OffsetBasis
    /\ ret = [returned |-> FALSE, value |-> OffsetBasis]
    /\ idx = [computed |-> FALSE, value |-> 0]
    /\ prevCall = [called |-> FALSE, str |-> <<>>, value |-> OffsetBasis]

\* ----------------------------------------------------------- the session

\* The load effect: what it leaves in history and favorites.  A throw in
\* either JSON.parse, or in new Set() of a value that is not iterable, runs
\* the catch, which empties both.
LoadEffect(hraw, fraw) ==
    LET hThrows == Truthy(hraw) /\ ParseThrows(hraw)
        fThrows == Truthy(fraw) /\ (ParseThrows(fraw) \/ ~ParsesToArray(fraw))
    IN IF hThrows \/ fThrows
       THEN [history |-> <<>>, favorites |-> <<>>, isArray |-> TRUE]
       ELSE [history |-> IF Truthy(hraw) /\ ParsesToArray(hraw)
                         THEN hraw.val ELSE <<>>,
             favorites |-> IF Truthy(fraw) THEN NewSet(fraw.val) ELSE <<>>,
             isArray |-> ~Truthy(hraw) \/ ParsesToArray(hraw)]

\* An updater that inserts without looking for today's date in prev.
AddTodayNoCheck(prev, today, word) ==
    [history |-> <<[date |-> today, word |-> word.word,
                    meaning |-> word.meaning]>> \o prev,
     hset |-> TRUE, add |-> "inserted"]

\* The add-today effect's updater on prev: the next history, whether it called
\* setItem, and whether it inserted.
AddToday(prev, today, word) ==
    IF \E k \in 1..Len(prev) : prev[k].date = today
    THEN [history |-> prev, hset |-> FALSE, add |-> "kept"]
    ELSE [history |-> <<[date |-> today, word |-> word.word,
                         meaning |-> word.meaning]>> \o prev,
          hset |-> TRUE, add |-> "inserted"]

\* The save-favorites effect's write.
SaveFavorites(set) == Stringify(set)

\* The page loads: first render, the three effects, and the render and
\* effects that their state updates cause.
Mount(adv) ==
    /\ phase = "closed"
    /\ sessions < MaxSessions
    /\ LET clock == SetDate(now, now.d + adv)
           today == todayKey(clock)
           cw == WordIndexOf[today]
           ld == LoadEffect(hblob, fblob)
       IN /\ clock \in Days
          /\ now' = clock
          /\ phase' = "open"
          /\ sessions' = sessions + 1
          /\ todayDateStr' = today
          /\ viewingDate' = today
          /\ kbViewingDate' = today
          /\ currentWord' = cw
          /\ IF ~InCatalog(cw)
             THEN \* currentWord.word of undefined throws in the first render
                  /\ crashed' = TRUE
                  /\ last' = [None EXCEPT !.op = "mount"]
                  /\ UNCHANGED <<history, favorites, hblob, fblob>>
             ELSE IF ~ld.isArray
             THEN \* prev.some is not a function: the updater throws in the
                  \* render after the effects, the first of which have run
                  /\ crashed' = TRUE
                  /\ last' = [None EXCEPT !.op = "mount", !.loaded = <<ld>>]
                  /\ history' = <<>>
                  /\ favorites' = <<>>
                  /\ fblob' = SaveFavorites(<<>>)
                  /\ UNCHANGED hblob
             ELSE LET add == AddToday(ld.history, today, WORDS[cw + 1])
                  IN /\ crashed' = FALSE
                     /\ history' = add.history
                     /\ hblob' = IF add.hset THEN Stringify(add.history) ELSE hblob
                     /\ favorites' = ld.favorites
                     /\ fblob' = SaveFavorites(ld.favorites)
                     /\ last' = [op |-> "mount", add |-> add.add,
                                 hset |-> add.hset, prev |-> ld.history,
                                 loaded |-> <<ld>>]
    /\ UNCHANGED <<searchQuery, showFavoritesOnly, statsVars, hashVars>>

\* The page is closed: the React state is gone, the storage stays.
Close ==
    /\ phase = "open"
    /\ sessions < MaxSessions
    /\ phase' = "closed"
    /\ crashed' = FALSE
    /\ todayDateStr' = <<>> /\ viewingDate' = <<>> /\ kbViewingDate' = <<>>
    /\ currentWord' = 0
    /\ history' = <<>> /\ favorites' = <<>>
    /\ last' = [None EXCEPT !.op = "close"]
    /\ UNCHANGED <<now, sessions, hblob, fblob, searchQuery,
                   showFavoritesOnly, statsVars, hashVars>>

\* navigateDate(days) as a closure over the viewingDate of one render.
navigateDate(base, days) ==
    dateKey(SetDate(dateFromKey(base), dateFromKey(base).d + days))

NavigateOf == [k \in DayKeys |-> [d \in {0 - 1, 1} |-> navigateDate(k, d)]]

\* setViewingDate(newView) and the render and effects after it: the add-today
\* effect runs again when currentWord.word or .meaning changed, the keydown
\* handler is registered again when currentWord changed.
SetViewingDate(newView, op) ==
    LET cw == WordIndexOf[newView]
    IN /\ viewingDate' = newView
       /\ currentWord' = cw
       /\ IF ~InCatalog(cw)
          THEN /\ crashed' = TRUE
               /\ last' = [None EXCEPT !.op = op]
               /\ UNCHANGED <<kbViewingDate, history, hblob>>
          ELSE LET rerun == \/ WORDS[cw + 1].word # WORDS[currentWord + 1].word
                            \/ WORDS[cw + 1].meaning # WORDS[currentWord + 1].meaning
                   add == IF rerun
                          THEN AddToday(history, todayDateStr, WORDS[cw + 1])
                          ELSE [history |-> history, hset |-> FALSE, add |-> "none"]
               IN /\ crashed' = FALSE
                  /\ kbViewingDate' = IF cw # currentWord THEN newView
                                      ELSE kbViewingDate
                  /\ history' = add.history
                  /\ hblob' = IF add.hset THEN Stringify(add.history) ELSE hblob
                  /\ last' = [op |-> op, add |-> add.add, hset |-> add.hset,
                              prev |-> history, loaded |-> <<>>]
       /\ UNCHANGED <<now, phase, sessions, todayDateStr, favorites, fblob,
                      searchQuery, showFavoritesOnly, statsVars,
                      hashVars>>

Running == phase = "open" /\ ~crashed

\* The previous-day and next-day buttons, bound to the current render.
NavigateButton(days) ==
    /\ Running
    /\ days = 1 =>
         ~(viewingDate # todayDateStr /\ ~StrLess(viewingDate, todayDateStr))
    /\ NavigateOf[viewingDate][days] \in DayKeys
    /\ SetViewingDate(NavigateOf[viewingDate][days],
                      IF days = 1 THEN "next" ELSE "previous")

\* ArrowLeft and ArrowRight, through the registered keydown handler.
NavigateKey(days) ==
    /\ Running
    /\ NavigateOf[kbViewingDate][days] \in DayKeys
    /\ SetViewingDate(NavigateOf[kbViewingDate][days],
                      IF days = 1 THEN "next" ELSE "previous")

\* The Today button, shown when another day is viewed.
GoToday ==
    /\ Running
    /\ viewingDate # todayDateStr
    /\ SetViewingDate(todayDateStr, "today")

\* toggleFavorite's updater.
Toggled(prev, date) ==
    IF date \in Members(prev)
    THEN SelectSeq(prev, LAMBDA x : x # date)
    ELSE Append(prev, date)

\* toggleFavorite(date), from the star of the viewed day or of a history
\* item, and the save-favorites effect after it.
toggleFavorite(date) ==
    /\ Running
    /\ date \notin Members(favorites) => Len(favorites) < MaxFavs
    /\ favorites' = Toggled(favorites, date)
    /\ fblob' = SaveFavorites(Toggled(favorites, date))
    /\ last' = [None EXCEPT !.op = "toggle"]
    /\ UNCHANGED <<now, phase, crashed, sessions, todayDateStr, viewingDate,
                   currentWord, kbViewingDate, history, hblob,
                   searchQuery, showFavoritesOnly, statsVars, hashVars>>

\* A clear that stores an empty array in place of removing the item.
ClearedKeepsItem(raw) == Stringify(<<>>)

\* clearHistory's removeItem once the confirmation is given.
Cleared(raw) == Absent

\* clearHistory(), with the answer to confirm().
clearHistory(ok) ==
    /\ Running
    /\ IF ok
       THEN /\ history' = <<>>
            /\ hblob' = Cleared(hblob)
            /\ last' = [None EXCEPT !.op = "clear"]
       ELSE /\ last' = [None EXCEPT !.op = "declined"]
            /\ UNCHANGED <<history, hblob>>
    /\ UNCHANGED <<now, phase, crashed, sessions, todayDateStr, viewingDate,
                   currentWord, kbViewingDate, favorites, fblob,
                   searchQuery, showFavoritesOnly, statsVars, hashVars>>

\* What an earlier run of the program, or anything else, may have left in
\* the two storage items.
InitHistoryBlobs ==
    {Absent, EmptyText, Garbage, ObjectText,
     Stringify(<<Rec(dateKey(DayAt(0 - 1)))>>),
     Stringify(<<Rec(dateKey(DayAt(0 - 1))), Rec(dateKey(DayAt(0 - 1)))>>)}
InitFavoritesBlobs ==
    {Absent, Garbage, ObjectText, Stringify(<<dateKey(DayAt(0 - 1))>>)}

Init ==
    /\ now = Anchor /\ phase = "closed" /\ crashed = FALSE /\ sessions = 0
    /\ todayDateStr = <<>> /\ viewingDate = <<>> /\ currentWord = 0
    /\ kbViewingDate = <<>>
    /\ hblob \in InitHistoryBlobs
    /\ fblob \in InitFavoritesBlobs
    /\ last = None
    /\ ViewIdle /\ StatsIdle /\ HashIdle

Next ==
    \/ \E adv \in {0, 1} : Mount(adv)
    \/ Close
    \/ \E days \in {0 - 1, 1} : NavigateButton(days)
    \/ \E days \in {0 - 1, 1} : NavigateKey(days)
    \/ GoToday
    \/ \E date \in {viewingDate} \cup {history[k].date : k \in 1..Len(history)} :
           toggleFavorite(date)
    \/ \E ok \in BOOLEAN : clearHistory(ok)

Spec == Init /\ [][Next]_vars

\* ------------------------------------------------------------- statistics

\* [...history].sort((a, b) => b.date.localeCompare(a.date)): by date,
\* latest first, records of one date in their order in history.  On strings
\* of digits and hyphens of one shape localeCompare orders by code unit.
\* InsertAscending is the comparator with a and b exchanged.
InsertAscending(acc, r) ==
    LET n == Cardinality({k \in 1..Len(acc) : ~StrLess(r.date, acc[k].date)})
    IN SubSeq(acc, 1, n) \o <<r>> \o SubSeq(acc, n + 1, Len(acc))
InsertDescending(acc, r) ==
    LET n == Cardinality({k \in 1..Len(acc) : ~StrLess(acc[k].date, r.date)})
    IN SubSeq(acc, 1, n) \o <<r>> \o SubSeq(acc, n + 1, Len(acc))

SortByDate(hist) ==
    LET f[k \in 0..Len(hist)] ==
            IF k = 0 THEN <<>> ELSE InsertDescending(f[k - 1], hist[k])
    IN f[Len(hist)]

\* One turn of the streak loop on `entry`, with the expected date and the
\* count so far: the next count and expected date, and whether it breaks.
StreakTurn(entry, expected, count) ==
    IF dateKey(expected) = entry.date
    THEN [streak |-> count + 1, checkDate |-> SetDate(expected, expected.d - 1),
          break |-> FALSE]
    ELSE IF StrLess(dateKey(expected), entry.date)
    THEN [streak |-> count, checkDate |-> expected, break |-> TRUE]
    ELSE [streak |-> count, checkDate |-> expected, break |-> FALSE]

\* The stats memo begins: the counts, and the loop's set-up.
StatsBegin ==
    /\ pos = 0
    /\ ~stats.returned
    /\ sorted' = IF Len(history) > 0 THEN SortByDate(history) ELSE <<>>
    /\ checkDate' = now
    /\ streak' = 0
    /\ pos' = 1
    /\ UNCHANGED <<sessionVars, viewVars, stats, hashVars>>

\* for (const entry of sorted) { ... }
StatsTurn ==
    /\ pos >= 1
    /\ pos <= Len(sorted)
    /\ LET t == StreakTurn(sorted[pos], checkDate, streak)
       IN /\ streak' = t.streak
          /\ checkDate' = t.checkDate
          /\ pos' = IF t.break THEN Len(sorted) + 1 ELSE pos + 1
    /\ UNCHANGED <<sessionVars, viewVars, sorted, stats, hashVars>>

\* return { totalWords, favoriteCount, streak }
StatsReturn ==
    /\ pos > Len(sorted)
    /\ ~stats.returned
    /\ stats' = [returned |-> TRUE, totalWords |-> Len(history),
                 favoriteCount |-> Len(favorites), streak |-> streak]
    /\ UNCHANGED <<sessionVars, viewVars, sorted, pos, checkDate, streak, hashVars>>

\* Sequences over S of length at most n.
SeqsUpTo(S, n) == UNION {[1..m -> S] : m \in 0..n}

Distinct(q) == \A j, k \in 1..Len(q) : j # k => q[j] # q[k]

DistinctDates(hist) == \A j, k \in 1..Len(hist) : j # k => hist[j].date # hist[k].date

StatsInit ==
    /\ SessionIdle /\ StatsIdle /\ HashIdle
    /\ \E keys \in SeqsUpTo(DayKeys, MaxHist) :
           history = [k \in 1..Len(keys) |-> Rec(keys[k])]
    /\ favorites \in {<<>>, <<dateKey(Anchor)>>,
                      <<dateKey(DayAt(1)), dateKey(DayAt(0 - 1))>>}
    /\ searchQuery = <<>> /\ showFavoritesOnly = FALSE

StatsNext == StatsBegin \/ StatsTurn \/ StatsReturn

SpecStats == StatsInit /\ [][StatsNext]_vars

\* ----------------------------------------------------------------- filter

\* A search test that leaves the date out.
MatchesNoDate(r, query) ==
    \/ Includes(ToLowerCase(r.word), query)
    \/ Includes(ToLowerCase(r.meaning), query)

\* The search filter's test of one record, query being searchQuery.toLowerCase().
Matches(r, query) ==
    \/ Includes(ToLowerCase(r.word), query)
    \/ Includes(ToLowerCase(r.meaning), query)
    \/ Includes(r.date, query)

\* The filteredHistory memo.
filteredHistory ==
    LET byFavorite ==
            IF showFavoritesOnly
            THEN SelectSeq(history, LAMBDA r : r.date \in Members(favorites))
            ELSE history
    IN IF Len(searchQuery) > 0
       THEN SelectSeq(byFavorite, LAMBDA r : Matches(r, ToLowerCase(searchQuery)))
       ELSE byFavorite

\* onChange of the search input.
SetSearchQuery(q) ==
    /\ searchQuery' = q
    /\ UNCHANGED <<sessionVars, history, favorites, showFavoritesOnly,
                   statsVars, hashVars>>

\* onClick of the favorites-only button.
ToggleShowFavoritesOnly ==
    /\ showFavoritesOnly' = ~showFavoritesOnly
    /\ UNCHANGED <<sessionVars, history, favorites, searchQuery, statsVars,
                   hashVars>>

\* "Z", "e", "b", "1"
QueryAlphabet == {90, 101, 98, 49}

FilterInit ==
    /\ SessionIdle /\ StatsIdle /\ HashIdle
    /\ \E keys \in {q \in SeqsUpTo(DayKeys, MaxHist) : Distinct(q)} :
           history = [k \in 1..Len(keys) |-> Rec(keys[k])]
    /\ favorites \in {<<>>, <<dateKey(Anchor)>>,
                      <<dateKey(DayAt(1)), dateKey(DayAt(0 - 1))>>}
    /\ searchQuery = <<>> /\ showFavoritesOnly = FALSE

FilterNext ==
    \/ \E q \in SeqsUpTo(QueryAlphabet, MaxQueryLen) : SetSearchQuery(q)
    \/ ToggleShowFavoritesOnly

SpecFilter == FilterInit /\ [][FilterNext]_vars

\* ------------------------------------------------------------------- hash

\* for (...) { h ^= str.charCodeAt(i); h = Math.imul(h, 16777619); }
HashTurn ==
    /\ ~ret.returned
    /\ i < Len(str)
    /\ h' = HashStep(h, str[i + 1])
    /\ i' = i + 1
    /\ UNCHANGED <<sessionVars, viewVars, statsVars, str, ret, idx, prevCall>>

\* return h >>> 0
HashDone ==
    /\ ~ret.returned
    /\ i = Len(str)
    /\ ret' = [returned |-> TRUE, value |-> HashReturn(h)]
    /\ UNCHANGED <<sessionVars, viewVars, statsVars, str, i, h, idx, prevCall>>

\* const idx = hashString(dateStr) % WORDS.length
PickIndex ==
    /\ ret.returned
    /\ ~idx.computed
    /\ idx' = [computed |-> TRUE, value |-> JsRem(ret.value, Len(WORDS))]
    /\ UNCHANGED <<sessionVars, viewVars, statsVars, str, i, h, ret, prevCall>>

\* "-", "a", and a code unit above 255
HashAlphabet == {45, 97, 8364}
HashInputs == SeqsUpTo(HashAlphabet, MaxStrLen) \cup DayKeys

\* pickWordForDate is called again, with any argument.
CallAgain ==
    /\ idx.computed
    /\ ~prevCall.called
    /\ prevCall' = [called |-> TRUE, str |-> str, value |-> ret.value]
    /\ str' \in HashInputs
    /\ i' = 0
    /\ h' = OffsetBasis
    /\ ret' = [returned |-> FALSE, value |-> OffsetBasis]
    /\ idx' = [computed |-> FALSE, value |-> 0]
    /\ UNCHANGED <<sessionVars, viewVars, statsVars>>

HashInit ==
    /\ SessionIdle /\ ViewIdle /\ StatsIdle
    /\ str \in HashInputs
    /\ i = 0
    /\ h = OffsetBasis
    /\ ret = [returned |-> FALSE, value |-> OffsetBasis]
    /\ idx = [computed |-> FALSE, value |-> 0]
    /\ prevCall = [called |-> FALSE, str |-> <<>>, value |-> OffsetBasis]

HashNext == HashTurn \/ HashDone \/ PickIndex \/ CallAgain

SpecHash == HashInit /\ [][HashNext]_vars

\* ------------------------------------------------- reference definitions

\* The 32-bit FNV-1a hash computed on four bytes, least significant first:
\* start 2166136261 = 0x811C9DC5, per code unit XOR then multiply by
\* 16777619 = 0x01000193 modulo 2^32.
RefXorByte(a, b) ==
    LET f[k \in 0..8] ==
            IF k = 8 THEN 0
            ELSE (IF ((a \div (2 ^ k)) % 2) # ((b \div (2 ^ k)) % 2)
                  THEN 2 ^ k ELSE 0) + f[k + 1]
    IN f[0]

RefXor(w, c) ==
    <<RefXorByte(w[1], c % 256), RefXorByte(w[2], c \div 256), w[3], w[4]>>

RefTimesPrime(w) ==
    LET c1 == w[1] * 147
        c2 == w[1] * 1 + w[2] * 147 + (c1 \div 256)
        c3 == w[2] * 1 + w[3] * 147 + (c2 \div 256)
        c4 == w[1] * 1 + w[3] * 1 + w[4] * 147 + (c3 \div 256)
    IN <<c1 % 256, c2 % 256, c3 % 256, c4 % 256>>

RefFnv1a(s) ==
    LET Bytes == (0..255) \X (0..255) \X (0..255) \X (0..255)
        turn[p \in Bytes \X (0..65535)] == RefTimesPrime(RefXor(p[1], p[2]))
        f[k \in 0..Len(s)] ==
            IF k = 0 THEN <<197, 157, 28, 129>> ELSE turn[<<f[k - 1], s[k]>>]
    IN f[Len(s)]

\* The four bytes as a number [hi, lo].
RefNumber(w) == [hi |-> w[4] * 256 + w[3], lo |-> w[2] * 256 + w[1]]

\* The value of the four bytes modulo n.
RefMod(w, n) ==
    ((((((w[4] % n) * 256 + w[3]) % n) * 256 + w[2]) % n) * 256 + w[1]) % n

\* selectWord(key, catalog) = catalog[hash(key) mod catalog.length].
RefSelectWord(key) == WORDS[RefMod(RefFnv1a(key), Len(WORDS)) + 1]
RefRecord(key) ==
    [date |-> key, word |-> RefSelectWord(key).word,
     meaning |-> RefSelectWord(key).meaning]

\* The number of the day of a YYYY-MM-DD key, counting days of the calendar.
RefDayNumber(key) ==
    LET yy == Number(SubSeq(key, 1, 4))
        mm == Number(SubSeq(key, 6, 7))
        dd == Number(SubSeq(key, 9, 10))
        before == <<0, 31, 59, 90, 120, 151, 181, 212, 243, 273, 304, 334>>
        leap == (yy % 4 = 0 /\ yy % 100 # 0) \/ yy % 400 = 0
    IN 365 * (yy - 1) + ((yy - 1) \div 4) - ((yy - 1) \div 100)
           + ((yy - 1) \div 400) + before[mm]
           + (IF leap /\ mm > 2 THEN 1 ELSE 0) + dd

\* The dates of a history's records.
Dates(hist) == {hist[k].date : k \in 1..Len(hist)}

\* The largest n such that today, today - 1, ..., today - (n - 1) all have a
\* record in hist.
RefStreak(hist, today) ==
    LET has(n) == \A k \in 0..(n - 1) :
                      \E d \in Dates(hist) :
                          RefDayNumber(d) = RefDayNumber(today) - k
    IN CHOOSE n \in 0..Len(hist) :
           has(n) /\ \A m \in (n + 1)..Len(hist) : ~has(m)

\* The streak walk as the specification words it, on a history sorted by
\* date descending: a record after the expected day is skipped, a record
\* before it stops the walk, a record on it counts and moves the expected
\* day one day earlier.
RefWalk(srt, today) ==
    LET f[k \in 0..Len(srt)] ==
            IF k = 0
            THEN [streak |-> 0, expected |-> RefDayNumber(today), stopped |-> FALSE]
            ELSE LET w == f[k - 1]
                     d == RefDayNumber(srt[k].date)
                 IN IF w.stopped THEN w
                    ELSE IF d > w.expected THEN w
                    ELSE IF d < w.expected THEN [w EXCEPT !.stopped = TRUE]
                    ELSE [w EXCEPT !.streak = @ + 1, !.expected = @ - 1]
    IN f[Len(srt)].streak

\* Whether two code units are one letter up to case.
RefSameLetter(c, d) ==
    \/ c = d
    \/ c >= 65 /\ c <= 90 /\ d = c + 32
    \/ d >= 65 /\ d <= 90 /\ c = d + 32

\* Whether q occurs in s as a substring, case-insensitively.
RefOccurs(q, s) ==
    \E k \in 0..(Len(s) - Len(q)) :
        \A j \in 1..Len(q) : RefSameLetter(s[k + j], q[j])

\* Whether the filter keeps record r.
RefKeeps(r) ==
    /\ ~showFavoritesOnly \/ r.date \in Members(favorites)
    /\ \/ Len(searchQuery) = 0
       \/ RefOccurs(searchQuery, r.word)
       \/ RefOccurs(searchQuery, r.meaning)
       \/ RefOccurs(searchQuery, r.date)

\* ----------------------------------------------------------------- claims

\* C1: every record the session inserts carries the word and meaning that
\* selectWord gives for the record's own date; a load that finds no history
\* leaves exactly one record, today's, with today's word.
C1_InsertedRecordMatchesSelectWord ==
    /\ last.add = "inserted" => history[1] = RefRecord(history[1].date)
    /\ (last.op = "mount" /\ ~crashed /\ last.prev = <<>>)
           => history = <<RefRecord(todayDateStr)>>

\* C2: an operation that starts with at most one record per date in the
\* history and in the stored history ends so; an add-today step that finds
\* the date present leaves the sequence as it was and writes nothing.
UniquePerDate ==
    /\ DistinctDates(history)
    /\ ParsesToArray(hblob) => DistinctDates(hblob.val)
C2_OneRecordPerDate ==
    [][/\ UniquePerDate => UniquePerDate'
       /\ last'.add = "kept" =>
              /\ history' = last'.prev
              /\ ~last'.hset
              /\ hblob' = hblob]_vars

\* C2's case: the page is loaded again on a day whose record is stored.
C2_Witness ==
    /\ sessions = 2 /\ last.op = "mount" /\ last.add = "kept"
    /\ UniquePerDate /\ Len(history) >= 1

\* C3: a load whose stored history parses sets exactly the stored records,
\* whatever the favorites item holds, and a load whose stored favorites
\* parse sets exactly those, whatever the history item holds; a stored
\* record leaves the storage only through a confirmed clear.
C3_LoadKeepsEachStoreApart ==
    [][/\ (last'.op = "mount" /\ Truthy(hblob) /\ ParsesToArray(hblob))
              => /\ Len(last'.loaded) = 1
                 /\ last'.loaded[1].history = hblob.val
       /\ (last'.op = "mount" /\ Truthy(fblob) /\ ParsesToArray(fblob))
              => /\ Len(last'.loaded) = 1
                 /\ Members(last'.loaded[1].favorites) = Members(fblob.val)
       /\ (\E r \in Members(hblob.val) : r \notin Members(hblob'.val))
              => last'.op = "clear"]_vars

\* C4: once an operation is over, loading the two storage items gives the
\* history and the favorites in memory; after a confirmed clear the history
\* is empty and its item is absent; a declined clear changes nothing.
C4_StorageMirrorsMemory ==
    [][/\ (phase' = "open" /\ ~crashed') =>
              /\ LoadEffect(hblob', fblob').isArray
              /\ LoadEffect(hblob', fblob').history = history'
              /\ Members(LoadEffect(hblob', fblob').favorites) = Members(favorites')
       /\ last'.op = "clear" => history' = <<>> /\ hblob'.kind = "absent"
       /\ last'.op = "declined" =>
              UNCHANGED <<history, favorites, hblob, fblob>>]_vars

\* C4's case: a confirmed clear with favorites kept.
C4_Witness ==
    /\ last.op = "clear" /\ hblob.kind = "absent" /\ history = <<>>
    /\ Len(favorites) > 0 /\ fblob = Stringify(favorites)

\* C5: no load throws, and a load that finds the history item missing,
\* corrupt or unparsable leaves exactly one record, today's.
C5_LoadNeverFails ==
    [][/\ ~crashed'
       /\ (last'.op = "mount" /\ ~(Truthy(hblob) /\ ParsesToArray(hblob)))
              => /\ Len(history') = 1
                 /\ history'[1].date = todayDateStr']_vars

\* C6: for a history of distinct dates none after today, the returned
\* streak is the largest n with records on today, today - 1, ...,
\* today - (n - 1), totalWords is the number of records and favoriteCount
\* the number of favorites.
C6_StreakCountsDaysEndingToday ==
    (/\ stats.returned
     /\ DistinctDates(history)
     /\ \A d \in Dates(history) : ~StrLess(dateKey(now), d))
        => /\ stats.streak = RefStreak(history, dateKey(now))
           /\ stats.totalWords = Len(history)
           /\ stats.favoriteCount = Cardinality(Members(favorites))

\* C6's case: three records on consecutive days ending today, stored out
\* of order.
C6_Witness ==
    /\ stats.returned /\ stats.streak = 3 /\ Len(history) = 3
    /\ DistinctDates(history)
    /\ \A d \in Dates(history) : ~StrLess(dateKey(now), d)
    /\ history[1].date # dateKey(now)

\* C7: the filtered history is the subsequence of history, in order, of
\* the records that pass the favorites test and the search test; setting
\* either filter leaves history and favorites as they were.
FilterKeepsExactly == filteredHistory = SelectSeq(history, RefKeeps)
C7_FilterIsConjunction ==
    /\ FilterKeepsExactly
    /\ [][/\ FilterKeepsExactly'
          /\ history' = history
          /\ favorites' = favorites]_vars

\* C7's case: both filters on, one of three records kept.
C7_Witness ==
    /\ showFavoritesOnly /\ Len(searchQuery) = 2
    /\ Len(history) = 3 /\ Len(filteredHistory) = 1
    /\ filteredHistory = SelectSeq(history, RefKeeps)

\* C8: hashString returns the 32-bit FNV-1a value as a number in
\* 0..2^32-1, the index is that value modulo the catalog's length, in
\* range, and a later call with the same string returns the same number.
C8_HashIsFnv1a ==
    /\ ret.returned =>
           /\ ret.value = RefNumber(RefFnv1a(str))
           /\ ret.value.hi >= 0 /\ ret.value.hi <= 65535
           /\ ret.value.lo >= 0 /\ ret.value.lo <= 65535
           /\ str = <<97>> => ret.value = [hi |-> 58380, lo |-> 10540]
    /\ idx.computed =>
           /\ idx.value = RefMod(RefFnv1a(str), Len(WORDS))
           /\ idx.value >= 0 /\ idx.value < Len(WORDS)
    /\ (ret.returned /\ prevCall.called /\ prevCall.str = str)
           => prevCall.value = ret.value

\* C8's case: a second call, of a date key whose accumulator ends negative
\* as a signed 32-bit integer.
C8_Witness ==
    /\ idx.computed /\ prevCall.called /\ str \in DayKeys
    /\ h.hi < 0 /\ ret.value.hi >= 32768

\* C9: the returned streak is the result of the walk that skips a record
\* after the expected date, stops at a record before it and counts a record
\* on it, whatever the history holds.
C9_WalkSkipsLaterRecords ==
    stats.returned => stats.streak = RefWalk(sorted, dateKey(now))

\* C10: a previous-day or next-day action, from a button or from a key,
\* moves the viewing date one calendar day from the date displayed, and
\* leaves history and favorites as they were.
C10_NavigationMovesOneDay ==
    [][/\ last'.op = "previous" =>
              /\ RefDayNumber(viewingDate') = RefDayNumber(viewingDate) - 1
              /\ history' = history /\ favorites' = favorites
       /\ last'.op = "next" =>
              /\ RefDayNumber(viewingDate') = RefDayNumber(viewingDate) + 1
              /\ history' = history /\ favorites' = favorites]_vars

=============================================================================
